---- MODULE Spec2Model ----
(***************************************************************************)
(* Connection registry, broadcast fan-out and WebRTC signaling relay of    *)
(* the real-time server (server routes: registerRoutes).                   *)
(*                                                                         *)
(* Two groups of state:                                                    *)
(*   - the signaling side: videoRooms, webrtcPeers and the WebSocket of    *)
(*     every signaling client, driven by the ws 'message' and 'close'      *)
(*     handlers, which contain no await and so run to completion;          *)
(*   - the push side: sseClients, the transports, the connections table    *)
(*     of the storage and the POST /api/broadcast handlers, which suspend  *)
(*     at every awaited storage call.                                      *)
(***************************************************************************)
EXTENDS Integers, Sequences, FiniteSets, TLC

\* ------------------------------------------------------------------ bounds
MaxPeer == 2      \* signaling (WebSocket) clients
MaxRoom == 2      \* room ids clients may name
MaxSignal == 2    \* distinct signals a client may send
MaxConn == 2      \* push (SSE) connections
MaxBcast == 2     \* POST /api/broadcast requests
MaxDelete == 1    \* DELETE /api/connections/:clientId requests
MaxPing == 2      \* ping writes per connection
MaxRest == 2      \* requests to the /api/video/rooms endpoints
MaxUser == 1      \* user ids the /api/video/rooms requests may name
MaxTimers == 2    \* reconnect timers of the browser client pending at once

\* SSEClient: private maxReconnectAttempts = 5, private reconnectDelay = 1000
maxReconnectAttempts == 5
reconnectDelay == 1000

WsClient == 1..MaxPeer
\* every id is a fresh nanoid(): no push connection shares its id with a socket
Conn == (MaxPeer + 1)..(MaxPeer + MaxConn)
Bcast == 1..MaxBcast
Del == 1..MaxDelete
Room == 1..MaxRoom
Signals == 1..MaxSignal
Rest == 1..MaxRest
\* userId.toString() of a numeric user id: no socket or push connection has it
User == (MaxPeer + MaxConn + 1)..(MaxPeer + MaxConn + MaxUser)

\* A message field that is missing (undefined, hence falsy) in the JSON frame.
NoRoomId == 0
NoTarget == 0
\* The optional excludeClientId of broadcastToVideoRoomWebSocket, when omitted.
NoExclude == 0
\* A :clientId of DELETE /api/connections/:clientId that no connection ever had.
UnknownId == 0

SignalTypes == {"offer", "answer", "ice-candidate"}

\* the signalType a client gives its s-th signal
SignalTypeOf(s) ==
  CASE s % 3 = 1 -> "offer"
    [] s % 3 = 2 -> "answer"
    [] OTHER -> "ice-candidate"

VARIABLES
  wsReadyState,   \* WsClient -> "NONE" | "OPEN" | "CLOSING" | "CLOSED"
  videoRooms,     \* roomId -> [hostId, participants], a Map: the domain is its keys
  webrtcPeers,    \* clientId -> [currentRoomId], a Map: the domain is its keys
  lastEvent,      \* the event the last handler ran for, and the rooms its client was in
  sent            \* WsClient -> the frames the last handler sent to that socket

VARIABLES
  sseClients,     \* the keys of the Map, in insertion order
  transport,      \* Conn -> "none" | "open" | "closed" | "ended"
  closePc,        \* Conn -> where the req 'close' handler of the connection is
  createPc,       \* Conn -> where the un-awaited createConnection of admission is
  deletePc,       \* Del -> where the DELETE /api/connections/:clientId request is and its id
  connections,    \* the connections table: clientId -> [messageCount]
  frames,         \* Conn -> the frames that reached the client, in order
  bpc,            \* Bcast -> where the broadcast handler is
  clientEntries,  \* Bcast -> Array.from(sseClients.entries()), the keys
  idx,            \* Bcast -> the position of the for loop in clientEntries
  successCount,   \* Bcast -> successCount
  connection,     \* Bcast -> messageCount of the row getConnection returned
  atInvoke,       \* Bcast -> the registry when the request arrived
  writes,         \* Bcast -> Conn -> how response.write of the broadcast ended
  staleWrites     \* <<b, c>>: b wrote to c while c was not in sseClients

VARIABLES
  pingPc,         \* Conn -> "none" | "armed" | "cleared": the pingInterval of the connection
  pingCount,      \* Conn -> the ping writes made so far
  pingWrite,      \* Conn -> how the last ping write ended, "none" before the first
  uncaught        \* an exception has left a callback: the process has terminated

VARIABLES
  rest,           \* Rest -> where the /api/video/rooms request is, with its roomId and userId
  roomRows        \* the room_id values of the video_rooms table

VARIABLES
  eventSource,          \* this.eventSource: "null", or the readyState of the EventSource
  isConnected,          \* this.isConnected
  reconnectAttempts,    \* this.reconnectAttempts
  timers,               \* the delays of the setTimeout callbacks that have not run yet
  reconnectsSinceOpen,  \* the reconnects scheduled since the last onopen
  clientEvent           \* the callback or call of the client that ran last

wsVars == <<wsReadyState, videoRooms, webrtcPeers, lastEvent, sent>>
connVars == <<sseClients, transport, closePc, createPc, deletePc, connections>>
bcastVars == <<bpc, clientEntries, idx, successCount, connection, atInvoke, writes, staleWrites>>
pingVars == <<pingPc, pingCount, pingWrite, uncaught>>
sseVars == <<connVars, bcastVars, frames, pingVars>>
restVars == <<rest, roomRows>>
roomVars == <<wsVars, restVars>>
clientVars == <<eventSource, isConnected, reconnectAttempts, timers,
                reconnectsSinceOpen, clientEvent>>
serverVars == <<wsVars, sseVars, restVars>>
vars == <<serverVars, clientVars>>

\* ----------------------------------------------------------- frames, maps
NoMessage ==
  [type |-> "none", roomId |-> NoRoomId, targetClientId |-> NoTarget,
   signalType |-> "none", signal |-> 0]

JoinMessages == {[NoMessage EXCEPT !.type = "join-room", !.roomId = r] : r \in Room \cup {NoRoomId}}

LeaveMessages == {[NoMessage EXCEPT !.type = "leave-room", !.roomId = r] : r \in Room \cup {NoRoomId}}

SignalMessages ==
  {[type |-> "webrtc-signal", roomId |-> NoRoomId, targetClientId |-> t,
    signalType |-> SignalTypeOf(s), signal |-> s] :
      t \in WsClient \cup {NoTarget}, s \in Signals}

Nothing == [c \in WsClient |-> << >>]

SendTo(clientId, frame) == [c \in WsClient |-> IF c = clientId THEN <<frame>> ELSE << >>]

SendToAll(targets, frame) == [c \in WsClient |-> IF c \in targets THEN <<frame>> ELSE << >>]

Then(first, second) == [c \in WsClient |-> first[c] \o second[c]]

MapDelete(map, key) == [k \in DOMAIN map \ {key} |-> map[k]]

MapSet(map, key, value) == [k \in DOMAIN map \cup {key} |-> IF k = key THEN value ELSE map[k]]

\* targetPeer && targetPeer.socket.readyState === WebSocket.OPEN
PeerOpen(peers, clientId) == clientId \in DOMAIN peers /\ wsReadyState[clientId] = "OPEN"

\* --------------------------------------------------------- room helpers
InRegistry(c) == \E i \in 1..Len(sseClients) : sseClients[i] = c

broadcastToVideoRoomWebSocket(rooms, peers, roomId, message, excludeClientId) ==
  IF roomId \notin DOMAIN rooms
  THEN Nothing
  ELSE SendToAll({p \in rooms[roomId].participants \cap WsClient :
                    p # excludeClientId /\ PeerOpen(peers, p)}, message)

\* room.participants.has(clientId), over the rooms of the registry
RoomsOf(rooms, clientId) == {r \in DOMAIN rooms : clientId \in rooms[r].participants}

\* RoomsAfterJoin making the joining client the host of the room every time
RoomsAfterJoinRehosting(rooms, roomId, clientId) ==
  LET room == IF roomId \in DOMAIN rooms
              THEN rooms[roomId]
              ELSE [hostId |-> clientId, participants |-> {}]
  IN MapSet(rooms, roomId, [hostId |-> clientId,
                            participants |-> room.participants \cup {clientId}])

\* videoRooms.get(roomId), or a new room hosted by clientId; then participants.add
RoomsAfterJoin(rooms, roomId, clientId) ==
  LET room == IF roomId \in DOMAIN rooms
              THEN rooms[roomId]
              ELSE [hostId |-> clientId, participants |-> {}]
  IN MapSet(rooms, roomId, [room EXCEPT !.participants = @ \cup {clientId}])

\* RoomsAfterLeave without the 'close room if empty' step
RoomsAfterLeaveKeepingEmpty(rooms, roomId, clientId) ==
  IF roomId \notin DOMAIN rooms
  THEN rooms
  ELSE MapSet(rooms, roomId, [rooms[roomId] EXCEPT !.participants = @ \ {clientId}])

\* participants.delete(clientId); videoRooms.delete(roomId) when the set is empty
RoomsAfterLeave(rooms, roomId, clientId) ==
  IF roomId \notin DOMAIN rooms
  THEN rooms
  ELSE LET left == rooms[roomId].participants \ {clientId}
       IN IF left = {}
          THEN MapDelete(rooms, roomId)
          ELSE MapSet(rooms, roomId, [rooms[roomId] EXCEPT !.participants = left])

\* RoomsAfterClose leaving the forEach after the first room that has clientId
RoomsAfterCloseFirstOnly(rooms, clientId) ==
  IF RoomsOf(rooms, clientId) = {}
  THEN rooms
  ELSE RoomsAfterLeave(rooms,
         CHOOSE r \in RoomsOf(rooms, clientId) : \A q \in RoomsOf(rooms, clientId) : r <= q,
         clientId)

\* videoRooms.forEach of the 'close' handler: every room that has clientId
RoomsAfterClose(rooms, clientId) ==
  LET keep == {r \in DOMAIN rooms :
                 clientId \notin rooms[r].participants
                 \/ rooms[r].participants \ {clientId} # {}}
  IN [r \in keep |-> [rooms[r] EXCEPT !.participants = @ \ {clientId}]]

\* broadcastToVideoRoom: the push connections whose id is a participant of the
\* room are written to; the others are skipped.
broadcastToVideoRoom(participants, message) ==
  [c \in Conn |-> IF c \in participants /\ InRegistry(c) /\ transport[c] = "open"
                  THEN <<message>> ELSE << >>]

\* the participant-left notices of the 'close' handler, room after room
RECURSIVE LeftNotices(_, _, _)
LeftNotices(rooms, clientId, r) ==
  IF r > MaxRoom
  THEN [c \in Conn |-> << >>]
  ELSE LET later == LeftNotices(rooms, clientId, r + 1)
       IN IF r \in DOMAIN rooms /\ clientId \in rooms[r].participants
          THEN LET left == rooms[r].participants \ {clientId}
                   now == broadcastToVideoRoom(left,
                            [type |-> "participant-left", clientId |-> clientId,
                             participantCount |-> Cardinality(left)])
               IN [c \in Conn |-> now[c] \o later[c]]
          ELSE later

\* ------------------------------------------------------ signaling handlers
handleJoinVideoRoom(clientId, message) ==
  IF message.roomId = NoRoomId
  THEN /\ sent' = SendTo(clientId, [type |-> "error", message |-> "Room ID is required"])
       /\ UNCHANGED <<videoRooms, webrtcPeers>>
  ELSE LET roomId == message.roomId
           peers == MapSet(webrtcPeers, clientId, [currentRoomId |-> roomId])
           rooms == RoomsAfterJoin(videoRooms, roomId, clientId)
           count == Cardinality(rooms[roomId].participants)
       IN /\ webrtcPeers' = peers
          /\ videoRooms' = rooms
          /\ sent' = Then(SendTo(clientId,
                              [type |-> "room-joined", roomId |-> roomId,
                               participantCount |-> count,
                               isHost |-> (rooms[roomId].hostId = clientId)]),
                          broadcastToVideoRoomWebSocket(rooms, peers, roomId,
                              [type |-> "participant-joined", clientId |-> clientId,
                               roomId |-> roomId, participantCount |-> count],
                              clientId))

\* handleLeaveVideoRoom answering a client that has no peer entry with an error
handleLeaveVideoRoomComplaining(clientId, message) ==
  /\ clientId \notin DOMAIN webrtcPeers
  /\ sent' = SendTo(clientId, [type |-> "error", message |-> "Not in a video room"])
  /\ UNCHANGED <<videoRooms, webrtcPeers>>

handleLeaveVideoRoom(clientId, message) ==
  IF clientId \notin DOMAIN webrtcPeers
  THEN /\ sent' = Nothing
       /\ UNCHANGED <<videoRooms, webrtcPeers>>
  ELSE LET roomId == webrtcPeers[clientId].currentRoomId
           rooms == RoomsAfterLeave(videoRooms, roomId, clientId)
           count == IF roomId \in DOMAIN videoRooms
                    THEN Cardinality(videoRooms[roomId].participants \ {clientId})
                    ELSE 0
           \* the notice goes out after participants.delete, before videoRooms.delete
           notified == IF roomId \in DOMAIN videoRooms
                       THEN MapSet(videoRooms, roomId,
                                   [videoRooms[roomId] EXCEPT !.participants = @ \ {clientId}])
                       ELSE videoRooms
       IN /\ videoRooms' = rooms
          /\ webrtcPeers' = MapDelete(webrtcPeers, clientId)
          /\ sent' = Then(broadcastToVideoRoomWebSocket(notified, webrtcPeers, roomId,
                              [type |-> "participant-left", clientId |-> clientId,
                               roomId |-> roomId, participantCount |-> count],
                              NoExclude),
                          SendTo(clientId, [type |-> "room-left", roomId |-> roomId]))

\* const { targetClientId, signal, type: signalType } = message
RelayFrame(clientId, message) ==
  [type |-> "webrtc-signal", fromClientId |-> clientId,
   signalType |-> message.type, signal |-> message.signal]

\* SignalTargets with the room branch iterating webrtcPeers instead of the room
SignalTargetsEveryPeer(rooms, peers, clientId, message) ==
  IF message.targetClientId # NoTarget
  THEN {t \in {message.targetClientId} : PeerOpen(peers, t)}
  ELSE {p \in WsClient : p # clientId /\ PeerOpen(peers, p)}

\* the sockets handleWebRTCSignal sends the relayed frame to
SignalTargets(rooms, peers, clientId, message) ==
  IF message.targetClientId # NoTarget
  THEN {t \in {message.targetClientId} : PeerOpen(peers, t)}
  ELSE LET roomId == peers[clientId].currentRoomId
       IN IF roomId \in DOMAIN rooms
          THEN {p \in rooms[roomId].participants \cap WsClient :
                  p # clientId /\ PeerOpen(peers, p)}
          ELSE {}

\* handleWebRTCSignal returning silently when the sender has no peer entry
handleWebRTCSignalSilent(clientId, message) ==
  /\ UNCHANGED <<videoRooms, webrtcPeers>>
  /\ IF clientId \notin DOMAIN webrtcPeers
     THEN sent' = Nothing
     ELSE sent' = SendToAll(SignalTargets(videoRooms, webrtcPeers, clientId, message),
                            RelayFrame(clientId, message))

handleWebRTCSignal(clientId, message) ==
  /\ UNCHANGED <<videoRooms, webrtcPeers>>
  /\ IF clientId \notin DOMAIN webrtcPeers
     THEN sent' = SendTo(clientId, [type |-> "error", message |-> "Not in a video room"])
     ELSE sent' = SendToAll(SignalTargets(videoRooms, webrtcPeers, clientId, message),
                            RelayFrame(clientId, message))

\* ----------------------------------------------------------------- actions
\* wss.on('connection'): a fresh clientId and the welcome frame
WsConnect(c) ==
  /\ ~uncaught
  /\ UNCHANGED clientVars
  /\ wsReadyState[c] = "NONE"
  \* ids are fresh (nanoid): they are numbered in the order of connection
  /\ \A d \in WsClient : d < c => wsReadyState[d] # "NONE"
  /\ wsReadyState' = [wsReadyState EXCEPT ![c] = "OPEN"]
  /\ sent' = SendTo(c, [type |-> "connection", clientId |-> c])
  /\ lastEvent' = [kind |-> "connection", clientId |-> c, message |-> NoMessage,
                   rooms |-> RoomsOf(videoRooms, c)]
  /\ UNCHANGED <<videoRooms, webrtcPeers, sseVars, restVars>>

JoinRoom(c) ==
  /\ ~uncaught
  /\ UNCHANGED clientVars
  /\ wsReadyState[c] = "OPEN"
  /\ \E m \in JoinMessages :
       /\ handleJoinVideoRoom(c, m)
       /\ lastEvent' = [kind |-> "message", clientId |-> c, message |-> m,
                      rooms |-> RoomsOf(videoRooms, c)]
  /\ UNCHANGED <<wsReadyState, sseVars, restVars>>

LeaveRoom(c) ==
  /\ ~uncaught
  /\ UNCHANGED clientVars
  /\ wsReadyState[c] = "OPEN"
  /\ \E m \in LeaveMessages :
       /\ handleLeaveVideoRoom(c, m)
       /\ lastEvent' = [kind |-> "message", clientId |-> c, message |-> m,
                      rooms |-> RoomsOf(videoRooms, c)]
  /\ UNCHANGED <<wsReadyState, sseVars, restVars>>

Signal(c) ==
  /\ ~uncaught
  /\ UNCHANGED clientVars
  /\ wsReadyState[c] = "OPEN"
  /\ \E m \in SignalMessages :
       /\ handleWebRTCSignal(c, m)
       /\ lastEvent' = [kind |-> "message", clientId |-> c, message |-> m,
                      rooms |-> RoomsOf(videoRooms, c)]
  /\ UNCHANGED <<wsReadyState, sseVars, restVars>>

\* UnknownMessage answering the frame with an error and closing the socket
UnknownMessageClosing(c) ==
  /\ ~uncaught
  /\ UNCHANGED clientVars
  /\ wsReadyState[c] = "OPEN"
  /\ wsReadyState' = [wsReadyState EXCEPT ![c] = "CLOSING"]
  /\ sent' = SendTo(c, [type |-> "error", message |-> "Unknown message type"])
  /\ lastEvent' = [kind |-> "message", clientId |-> c,
                   message |-> [NoMessage EXCEPT !.type = "unknown"],
                   rooms |-> RoomsOf(videoRooms, c)]
  /\ UNCHANGED <<videoRooms, webrtcPeers, sseVars, restVars>>

\* default: of the switch, and a frame JSON.parse rejects
UnknownMessage(c) ==
  /\ ~uncaught
  /\ UNCHANGED clientVars
  /\ wsReadyState[c] = "OPEN"
  /\ sent' = Nothing
  /\ lastEvent' = [kind |-> "message", clientId |-> c,
                   message |-> [NoMessage EXCEPT !.type = "unknown"],
                   rooms |-> RoomsOf(videoRooms, c)]
  /\ UNCHANGED <<wsReadyState, videoRooms, webrtcPeers, sseVars, restVars>>

\* The closing handshake has started: readyState is CLOSING, 'close' not yet emitted.
WsClosing(c) ==
  /\ ~uncaught
  /\ UNCHANGED clientVars
  /\ wsReadyState[c] = "OPEN"
  /\ wsReadyState' = [wsReadyState EXCEPT ![c] = "CLOSING"]
  /\ sent' = Nothing
  /\ lastEvent' = [kind |-> "closing", clientId |-> c, message |-> NoMessage,
                   rooms |-> RoomsOf(videoRooms, c)]
  /\ UNCHANGED <<videoRooms, webrtcPeers, sseVars, restVars>>

\* ws.on('close')
WsClose(c) ==
  /\ ~uncaught
  /\ UNCHANGED clientVars
  /\ wsReadyState[c] \in {"OPEN", "CLOSING"}
  /\ wsReadyState' = [wsReadyState EXCEPT ![c] = "CLOSED"]
  /\ webrtcPeers' = MapDelete(webrtcPeers, c)
  /\ videoRooms' = RoomsAfterClose(videoRooms, c)
  /\ sent' = Nothing
  /\ frames' = [k \in Conn |-> frames[k] \o LeftNotices(videoRooms, c, 1)[k]]
  /\ lastEvent' = [kind |-> "close", clientId |-> c, message |-> NoMessage,
                   rooms |-> RoomsOf(videoRooms, c)]
  /\ UNCHANGED <<connVars, bcastVars, pingVars, restVars>>


\* ------------------------------------------------------- push connections
\* sseClients.delete(clientId)
Remove(clients, clientId) == SelectSeq(clients, LAMBDA k : k # clientId)

\* db.delete(connections).where(eq(connections.clientId, clientId))
RowsAfterRemove(rows, clientId) == MapDelete(rows, clientId)

\* db.update(connections).set(updates).where(eq(connections.clientId, clientId))
RowsAfterUpdate(rows, clientId, messageCount) ==
  IF clientId \in DOMAIN rows
  THEN MapSet(rows, clientId, [messageCount |-> messageCount])
  ELSE rows

\* How response.write ends: the frame reaches a client whose transport is open;
\* on a transport that is gone the call throws or returns with the frame lost.
WriteOutcomes(c) ==
  IF transport[c] = "open" THEN {"written"} ELSE {"dropped", "threw"}

\* GET /api/events
Connect(c) ==
  /\ ~uncaught
  /\ UNCHANGED clientVars
  /\ transport[c] = "none"
  /\ \A d \in Conn : d < c => transport[d] # "none"
  /\ transport' = [transport EXCEPT ![c] = "open"]
  /\ sseClients' = Append(sseClients, c)
  /\ createPc' = [createPc EXCEPT ![c] = "createConnection"]
  /\ frames' = [frames EXCEPT ![c] = Append(@, [type |-> "connection", id |-> c])]
  /\ pingPc' = [pingPc EXCEPT ![c] = "armed"]
  /\ UNCHANGED <<closePc, deletePc, connections, bcastVars, roomVars,
                 pingCount, pingWrite, uncaught>>

\* storage.createConnection(...) of the admission settles
CreateConnectionSettles(c) ==
  /\ ~uncaught
  /\ UNCHANGED clientVars
  /\ createPc[c] = "createConnection"
  /\ createPc' = [createPc EXCEPT ![c] = "done"]
  /\ \E ok \in BOOLEAN :
       connections' = IF ok THEN MapSet(connections, c, [messageCount |-> 0])
                            ELSE connections
  /\ UNCHANGED <<sseClients, transport, closePc, deletePc, frames, bcastVars, roomVars, pingVars>>

\* The client goes away: the transport is unusable, 'close' is not yet emitted.
Disconnect(c) ==
  /\ ~uncaught
  /\ UNCHANGED clientVars
  /\ transport[c] = "open"
  /\ transport' = [transport EXCEPT ![c] = "closed"]
  /\ UNCHANGED <<sseClients, closePc, createPc, deletePc, connections, frames, bcastVars, roomVars, pingVars>>

\* req.on('close'), up to its first await
Close(c) ==
  /\ ~uncaught
  /\ UNCHANGED clientVars
  /\ transport[c] \in {"closed", "ended"}
  /\ closePc[c] = "idle"
  /\ sseClients' = Remove(sseClients, c)
  /\ closePc' = [closePc EXCEPT ![c] = "removeConnection"]
  /\ UNCHANGED <<transport, createPc, deletePc, connections, frames, bcastVars, roomVars, pingVars>>

\* await storage.removeConnection(clientId) of the 'close' handler settles
CloseRemoveSettles(c) ==
  /\ ~uncaught
  /\ UNCHANGED clientVars
  /\ closePc[c] = "removeConnection"
  /\ closePc' = [closePc EXCEPT ![c] = "done"]
  /\ \E ok \in BOOLEAN :
       connections' = IF ok THEN RowsAfterRemove(connections, c) ELSE connections
  /\ UNCHANGED <<sseClients, transport, createPc, deletePc, frames, bcastVars, roomVars, pingVars>>

\* DELETE /api/connections/:clientId, up to its first await
ForceDisconnect(d, c) ==
  /\ ~uncaught
  /\ UNCHANGED clientVars
  /\ deletePc[d].pc = "idle"
  /\ c \in Conn => transport[c] # "none"
  /\ IF InRegistry(c)
     THEN /\ transport' = [transport EXCEPT ![c] = IF @ = "open" THEN "ended" ELSE @]
          /\ sseClients' = Remove(sseClients, c)
     ELSE UNCHANGED <<transport, sseClients>>
  /\ deletePc' = [deletePc EXCEPT ![d] = [pc |-> "removeConnection", clientId |-> c]]
  /\ UNCHANGED <<closePc, createPc, connections, frames, bcastVars, roomVars, pingVars>>

\* await storage.removeConnection(clientId) of the DELETE handler settles:
\* status 200, or 500 from the catch
ForceRemoveSettles(d) ==
  /\ ~uncaught
  /\ UNCHANGED clientVars
  /\ deletePc[d].pc = "removeConnection"
  /\ \E ok \in BOOLEAN :
       /\ connections' = IF ok THEN RowsAfterRemove(connections, deletePc[d].clientId)
                               ELSE connections
       /\ deletePc' = [deletePc EXCEPT ![d].pc = IF ok THEN "done" ELSE "failed"]
  /\ UNCHANGED <<sseClients, transport, closePc, createPc, frames, bcastVars, roomVars, pingVars>>

\* ------------------------------------------------------------ ping timer
\* Tick without the sseClients.has(clientId) test
TickUnchecked(c) ==
  /\ ~uncaught
  /\ UNCHANGED clientVars
  /\ pingPc[c] = "armed"
  /\ pingCount[c] < MaxPing
  /\ \E outcome \in WriteOutcomes(c) :
       /\ pingWrite' = [pingWrite EXCEPT ![c] = outcome]
       /\ frames' = IF outcome = "written"
                    THEN [frames EXCEPT ![c] = Append(@, [type |-> "ping", id |-> pingCount[c]])]
                    ELSE frames
       /\ uncaught' = (outcome = "threw")
  /\ pingCount' = [pingCount EXCEPT ![c] = @ + 1]
  /\ UNCHANGED <<pingPc, connVars, bcastVars, roomVars>>

\* The setInterval callback of the connection. res.write is not inside a try:
\* when it throws, the exception leaves the callback and the process ends.
\* The un-awaited storage.updateConnection sets lastPing only.
Tick(c) ==
  /\ ~uncaught
  /\ UNCHANGED clientVars
  /\ pingPc[c] = "armed"
  /\ IF InRegistry(c)
     THEN /\ pingCount[c] < MaxPing
          /\ \E outcome \in WriteOutcomes(c) :
               /\ pingWrite' = [pingWrite EXCEPT ![c] = outcome]
               /\ frames' = IF outcome = "written"
                            THEN [frames EXCEPT ![c] =
                                    Append(@, [type |-> "ping", id |-> pingCount[c]])]
                            ELSE frames
               /\ uncaught' = (outcome = "threw")
          /\ pingCount' = [pingCount EXCEPT ![c] = @ + 1]
          /\ UNCHANGED pingPc
     ELSE /\ pingPc' = [pingPc EXCEPT ![c] = "cleared"]
          /\ UNCHANGED <<frames, pingCount, pingWrite, uncaught>>
  /\ UNCHANGED <<connVars, bcastVars, roomVars>>

\* ------------------------------------------------------------- broadcast
\* catch (error) of the loop: sseClients.delete, then await removeConnection
Prune(b, c) ==
  /\ sseClients' = Remove(sseClients, c)
  /\ bpc' = [bpc EXCEPT ![b] = "removeConnection"]

\* The for loop from entry i on, up to its next await: the write to entry i,
\* or the createEventLog after the last entry.
FanOut(b, entries, i) ==
  /\ idx' = [idx EXCEPT ![b] = i]
  /\ IF i > Len(entries)
     THEN /\ bpc' = [bpc EXCEPT ![b] = "createEventLog"]
          /\ UNCHANGED <<sseClients, successCount, writes, staleWrites, frames>>
     ELSE \E outcome \in WriteOutcomes(entries[i]) :
            /\ writes' = [writes EXCEPT ![b][entries[i]] = outcome]
            /\ staleWrites' = IF InRegistry(entries[i])
                              THEN staleWrites
                              ELSE staleWrites \cup {<<b, entries[i]>>}
            /\ frames' = IF outcome = "written"
                         THEN [frames EXCEPT ![entries[i]] =
                                 Append(@, [type |-> "broadcast", id |-> b])]
                         ELSE frames
            /\ IF outcome = "threw"
               THEN /\ Prune(b, entries[i])
                    /\ UNCHANGED successCount
               ELSE /\ successCount' = [successCount EXCEPT ![b] = @ + 1]
                    /\ bpc' = [bpc EXCEPT ![b] = "getConnection"]
                    /\ UNCHANGED sseClients

\* POST /api/broadcast with a body insertMessageSchema accepts, up to
\* await storage.createMessage. Requests are numbered in the order they arrive.
Broadcast(b) ==
  /\ ~uncaught
  /\ UNCHANGED clientVars
  /\ bpc[b] = "idle"
  /\ \A a \in Bcast : a < b => bpc[a] # "idle"
  /\ bpc' = [bpc EXCEPT ![b] = "createMessage"]
  /\ atInvoke' = [atInvoke EXCEPT ![b] = {sseClients[i] : i \in 1..Len(sseClients)}]
  /\ UNCHANGED <<connVars, frames, clientEntries, idx, successCount, connection,
                 writes, staleWrites, roomVars, pingVars>>

\* createMessage settles: the snapshot and the first write, or the outer catch
CreateMessageSettles(b) ==
  /\ ~uncaught
  /\ UNCHANGED clientVars
  /\ bpc[b] = "createMessage"
  /\ \/ /\ clientEntries' = [clientEntries EXCEPT ![b] = sseClients]
        /\ FanOut(b, sseClients, 1)
        /\ UNCHANGED <<transport, closePc, createPc, deletePc, connections,
                       connection, atInvoke, roomVars, pingVars>>
     \/ /\ bpc' = [bpc EXCEPT ![b] = "catchLog"]
        /\ UNCHANGED <<connVars, frames, clientEntries, idx, successCount, connection,
                       atInvoke, writes, staleWrites, roomVars, pingVars>>

\* getConnection settles: the row, undefined, or a rejection caught by the loop
GetConnectionSettles(b) ==
  /\ ~uncaught
  /\ UNCHANGED clientVars
  /\ bpc[b] = "getConnection"
  /\ LET c == clientEntries[b][idx[b]] IN
     \/ /\ c \in DOMAIN connections
        /\ connection' = [connection EXCEPT ![b] = connections[c].messageCount]
        /\ bpc' = [bpc EXCEPT ![b] = "updateConnection"]
        /\ UNCHANGED <<connVars, frames, clientEntries, idx, successCount,
                       atInvoke, writes, staleWrites, roomVars, pingVars>>
     \/ /\ c \notin DOMAIN connections
        /\ FanOut(b, clientEntries[b], idx[b] + 1)
        /\ UNCHANGED <<transport, closePc, createPc, deletePc, connections,
                       clientEntries, connection, atInvoke, roomVars, pingVars>>
     \/ /\ Prune(b, c)
        /\ UNCHANGED <<transport, closePc, createPc, deletePc, connections, frames,
                       clientEntries, idx, successCount, connection, atInvoke,
                       writes, staleWrites, roomVars, pingVars>>

\* updateConnection settles: messageCount = connection.messageCount + 1
UpdateConnectionSettles(b) ==
  /\ ~uncaught
  /\ UNCHANGED clientVars
  /\ bpc[b] = "updateConnection"
  /\ LET c == clientEntries[b][idx[b]] IN
     \/ /\ connections' = RowsAfterUpdate(connections, c, connection[b] + 1)
        /\ FanOut(b, clientEntries[b], idx[b] + 1)
        /\ UNCHANGED <<transport, closePc, createPc, deletePc,
                       clientEntries, connection, atInvoke, roomVars, pingVars>>
     \/ /\ Prune(b, c)
        /\ UNCHANGED <<transport, closePc, createPc, deletePc, connections, frames,
                       clientEntries, idx, successCount, connection, atInvoke,
                       writes, staleWrites, roomVars, pingVars>>

\* removeConnection of the loop's catch settles; its rejection leaves the loop
RemoveConnectionSettles(b) ==
  /\ ~uncaught
  /\ UNCHANGED clientVars
  /\ bpc[b] = "removeConnection"
  /\ LET c == clientEntries[b][idx[b]] IN
     \/ /\ connections' = RowsAfterRemove(connections, c)
        /\ FanOut(b, clientEntries[b], idx[b] + 1)
        /\ UNCHANGED <<transport, closePc, createPc, deletePc,
                       clientEntries, connection, atInvoke, roomVars, pingVars>>
     \/ /\ bpc' = [bpc EXCEPT ![b] = "catchLog"]
        /\ UNCHANGED <<connVars, frames, clientEntries, idx, successCount, connection,
                       atInvoke, writes, staleWrites, roomVars, pingVars>>

\* createEventLog after the loop settles: res.json({recipientCount}) or the outer catch
CreateEventLogSettles(b) ==
  /\ ~uncaught
  /\ UNCHANGED clientVars
  /\ bpc[b] = "createEventLog"
  /\ \E ok \in BOOLEAN : bpc' = [bpc EXCEPT ![b] = IF ok THEN "done" ELSE "catchLog"]
  /\ UNCHANGED <<connVars, frames, clientEntries, idx, successCount, connection,
                 atInvoke, writes, staleWrites, roomVars, pingVars>>

\* createEventLog of the outer catch settles: status 400, or the handler's
\* promise rejects and no response is sent
CatchLogSettles(b) ==
  /\ ~uncaught
  /\ UNCHANGED clientVars
  /\ bpc[b] = "catchLog"
  /\ \E ok \in BOOLEAN : bpc' = [bpc EXCEPT ![b] = IF ok THEN "failed" ELSE "rejected"]
  /\ UNCHANGED <<connVars, frames, clientEntries, idx, successCount, connection,
                 atInvoke, writes, staleWrites, roomVars, pingVars>>

\* ------------------------------------------------- /api/video/rooms
IdleRequest == [pc |-> "idle", op |-> "none", roomId |-> NoRoomId, userId |-> 0]

\* Requests are numbered in the order they arrive.
NextToArrive(q) ==
  /\ rest[q].pc = "idle"
  /\ \A a \in Rest : a < q => rest[a].pc # "idle"

\* POST /api/video/rooms with a body insertVideoRoomSchema accepts, up to
\* await storage.createVideoRoom
CreateRoom(q) ==
  /\ ~uncaught
  /\ UNCHANGED clientVars
  /\ NextToArrive(q)
  /\ \E r \in Room, u \in User :
       rest' = [rest EXCEPT ![q] = [pc |-> "createVideoRoom", op |-> "create",
                                    roomId |-> r, userId |-> u]]
  /\ UNCHANGED <<wsVars, sseVars, roomRows>>

\* POST /api/video/rooms/:roomId/join, up to await storage.createVideoParticipant
RestJoin(q) ==
  /\ ~uncaught
  /\ UNCHANGED clientVars
  /\ NextToArrive(q)
  /\ \E r \in Room, u \in User :
       rest' = [rest EXCEPT ![q] = [pc |-> "createVideoParticipant", op |-> "join",
                                    roomId |-> r, userId |-> u]]
  /\ UNCHANGED <<wsVars, sseVars, roomRows>>

\* POST /api/video/rooms/:roomId/leave, up to await storage.leaveVideoRoom
RestLeave(q) ==
  /\ ~uncaught
  /\ UNCHANGED clientVars
  /\ NextToArrive(q)
  /\ \E r \in Room, u \in User :
       rest' = [rest EXCEPT ![q] = [pc |-> "leaveVideoRoom", op |-> "leave",
                                    roomId |-> r, userId |-> u]]
  /\ UNCHANGED <<wsVars, sseVars, roomRows>>

\* what a handler of /api/video/rooms leaves of the signaling side
RestHandled ==
  /\ lastEvent' = [kind |-> "request", clientId |-> 0, message |-> NoMessage, rooms |-> {}]
  /\ sent' = Nothing
  /\ UNCHANGED <<wsReadyState, webrtcPeers>>

\* room.participants.add / delete of the join and leave endpoints: the room,
\* when the registry has it, keeps its entry whatever is left in the set
RoomsAfterRest(rooms, roomId, participants) ==
  IF roomId \in DOMAIN rooms
  THEN MapSet(rooms, roomId, [rooms[roomId] EXCEPT !.participants = participants])
  ELSE rooms

\* createVideoRoom settles: videoRooms.set with a new Set(), or the catch;
\* room_id is UNIQUE, so the insert of a stored roomId is rejected
CreateVideoRoomSettles(q) ==
  /\ ~uncaught
  /\ UNCHANGED clientVars
  /\ rest[q].pc = "createVideoRoom"
  /\ \/ /\ rest[q].roomId \notin roomRows
        /\ roomRows' = roomRows \cup {rest[q].roomId}
        /\ videoRooms' = MapSet(videoRooms, rest[q].roomId,
                                [hostId |-> rest[q].userId, participants |-> {}])
        /\ rest' = [rest EXCEPT ![q].pc = "createEventLog"]
        /\ RestHandled
     \/ /\ rest' = [rest EXCEPT ![q].pc = "failed"]
        /\ UNCHANGED <<wsVars, roomRows>>
  /\ UNCHANGED sseVars

\* createVideoParticipant settles: participants.add, broadcastToVideoRoom
CreateVideoParticipantSettles(q) ==
  /\ ~uncaught
  /\ UNCHANGED clientVars
  /\ rest[q].pc = "createVideoParticipant"
  /\ \/ LET roomId == rest[q].roomId
            rooms == RoomsAfterRest(videoRooms, roomId,
                       IF roomId \in DOMAIN videoRooms
                       THEN videoRooms[roomId].participants \cup {rest[q].userId}
                       ELSE {})
            notices == IF roomId \in DOMAIN rooms
                       THEN broadcastToVideoRoom(rooms[roomId].participants,
                              [type |-> "user_joined_video", id |-> rest[q].userId])
                       ELSE [c \in Conn |-> << >>]
        IN /\ videoRooms' = rooms
           /\ frames' = [c \in Conn |-> frames[c] \o notices[c]]
           /\ rest' = [rest EXCEPT ![q].pc = "createEventLog"]
           /\ RestHandled
     \/ /\ rest' = [rest EXCEPT ![q].pc = "failed"]
        /\ UNCHANGED <<wsVars, frames>>
  /\ UNCHANGED <<connVars, bcastVars, pingVars, roomRows>>

\* leaveVideoRoom settles: participants.delete, broadcastToVideoRoom, res.json
LeaveVideoRoomSettles(q) ==
  /\ ~uncaught
  /\ UNCHANGED clientVars
  /\ rest[q].pc = "leaveVideoRoom"
  /\ \/ LET roomId == rest[q].roomId
            rooms == RoomsAfterRest(videoRooms, roomId,
                       IF roomId \in DOMAIN videoRooms
                       THEN videoRooms[roomId].participants \ {rest[q].userId}
                       ELSE {})
            notices == IF roomId \in DOMAIN rooms
                       THEN broadcastToVideoRoom(rooms[roomId].participants,
                              [type |-> "user_left_video", id |-> rest[q].userId])
                       ELSE [c \in Conn |-> << >>]
        IN /\ videoRooms' = rooms
           /\ frames' = [c \in Conn |-> frames[c] \o notices[c]]
           /\ rest' = [rest EXCEPT ![q].pc = "done"]
           /\ RestHandled
     \/ /\ rest' = [rest EXCEPT ![q].pc = "failed"]
        /\ UNCHANGED <<wsVars, frames>>
  /\ UNCHANGED <<connVars, bcastVars, pingVars, roomRows>>

\* createEventLog of the create and join endpoints settles: the answer, or the catch
RestEventLogSettles(q) ==
  /\ ~uncaught
  /\ UNCHANGED clientVars
  /\ rest[q].pc = "createEventLog"
  /\ \E ok \in BOOLEAN : rest' = [rest EXCEPT ![q].pc = IF ok THEN "done" ELSE "failed"]
  /\ UNCHANGED <<wsVars, sseVars, roomRows>>

\* ------------------------------------------------- SSEClient (browser)
\* disconnect(): close and forget the EventSource, if there is one
disconnect(source) == "null"

\* isConnected after disconnect(): false when there was an EventSource
ConnectedAfterDisconnect(source, connected) ==
  IF source # "null" THEN FALSE ELSE connected

\* the sequence without its i-th element
Without(seq, i) == SubSeq(seq, 1, i - 1) \o SubSeq(seq, i + 1, Len(seq))

\* connect() called by the application while there is no EventSource
ClientConnect ==
  /\ eventSource = "null"
  /\ eventSource' = "CONNECTING"
  /\ clientEvent' = "connect"
  /\ UNCHANGED <<isConnected, reconnectAttempts, timers, reconnectsSinceOpen, serverVars>>

\* disconnect() called by the application
ClientDisconnect ==
  /\ eventSource # "null"
  /\ eventSource' = disconnect(eventSource)
  /\ isConnected' = ConnectedAfterDisconnect(eventSource, isConnected)
  /\ clientEvent' = "disconnect"
  /\ UNCHANGED <<reconnectAttempts, timers, reconnectsSinceOpen, serverVars>>

\* eventSource.onopen
OnOpen ==
  /\ eventSource = "CONNECTING"
  /\ eventSource' = "OPEN"
  /\ isConnected' = TRUE
  /\ reconnectAttempts' = 0
  /\ reconnectsSinceOpen' = 0
  /\ clientEvent' = "open"
  /\ UNCHANGED <<timers, serverVars>>

\* OnError testing reconnectAttempts <= maxReconnectAttempts
OnErrorOneMore ==
  /\ eventSource \in {"CONNECTING", "OPEN"}
  /\ eventSource' \in {"CONNECTING", "CLOSED"}
  /\ isConnected' = FALSE
  /\ clientEvent' = "error"
  /\ IF reconnectAttempts <= maxReconnectAttempts
     THEN /\ Len(timers) < MaxTimers
          /\ reconnectAttempts' = reconnectAttempts + 1
          /\ timers' = Append(timers, reconnectDelay * (reconnectAttempts + 1))
          /\ reconnectsSinceOpen' = reconnectsSinceOpen + 1
     ELSE UNCHANGED <<reconnectAttempts, timers, reconnectsSinceOpen>>
  /\ UNCHANGED serverVars

\* eventSource.onerror: the browser retries by itself (CONNECTING) or gives
\* up (CLOSED); the handler schedules disconnect() and connect() while
\* reconnectAttempts is below maxReconnectAttempts
OnError ==
  /\ eventSource \in {"CONNECTING", "OPEN"}
  /\ eventSource' \in {"CONNECTING", "CLOSED"}
  /\ isConnected' = FALSE
  /\ clientEvent' = "error"
  /\ IF reconnectAttempts < maxReconnectAttempts
     THEN /\ Len(timers) < MaxTimers
          /\ reconnectAttempts' = reconnectAttempts + 1
          /\ timers' = Append(timers, reconnectDelay * (reconnectAttempts + 1))
          /\ reconnectsSinceOpen' = reconnectsSinceOpen + 1
     ELSE UNCHANGED <<reconnectAttempts, timers, reconnectsSinceOpen>>
  /\ UNCHANGED serverVars

\* a setTimeout callback runs: this.disconnect(); this.connect()
TimerFires ==
  /\ \E i \in 1..Len(timers) : timers' = Without(timers, i)
  /\ eventSource' = "CONNECTING"
  /\ isConnected' = ConnectedAfterDisconnect(eventSource, isConnected)
  /\ clientEvent' = "timer"
  /\ UNCHANGED <<reconnectAttempts, reconnectsSinceOpen, serverVars>>

InitSignaling ==
  /\ wsReadyState = [c \in WsClient |-> "NONE"]
  /\ videoRooms = << >>
  /\ webrtcPeers = << >>
  /\ lastEvent = [kind |-> "init", clientId |-> 0, message |-> NoMessage, rooms |-> {}]
  /\ sent = Nothing

InitPush ==
  /\ sseClients = << >>
  /\ transport = [c \in Conn |-> "none"]
  /\ closePc = [c \in Conn |-> "idle"]
  /\ createPc = [c \in Conn |-> "idle"]
  /\ deletePc = [d \in Del |-> [pc |-> "idle", clientId |-> 0]]
  /\ connections = << >>
  /\ frames = [c \in Conn |-> << >>]
  /\ bpc = [b \in Bcast |-> "idle"]
  /\ clientEntries = [b \in Bcast |-> << >>]
  /\ idx = [b \in Bcast |-> 0]
  /\ successCount = [b \in Bcast |-> 0]
  /\ connection = [b \in Bcast |-> 0]
  /\ atInvoke = [b \in Bcast |-> {}]
  /\ writes = [b \in Bcast |-> [c \in Conn |-> "none"]]
  /\ staleWrites = {}
  /\ pingPc = [c \in Conn |-> "none"]
  /\ pingCount = [c \in Conn |-> 0]
  /\ pingWrite = [c \in Conn |-> "none"]
  /\ uncaught = FALSE

InitRest ==
  /\ rest = [q \in Rest |-> IdleRequest]
  /\ roomRows = {}

InitClient ==
  /\ eventSource = "null"
  /\ isConnected = FALSE
  /\ reconnectAttempts = 0
  /\ timers = << >>
  /\ reconnectsSinceOpen = 0
  /\ clientEvent = "none"

Init == InitSignaling /\ InitPush /\ InitRest /\ InitClient

\* the signaling channel with the sockets of the clients peers
NextSockets(peers) ==
  \/ \E c \in peers : WsConnect(c)
  \/ \E c \in peers : JoinRoom(c)
  \/ \E c \in peers : LeaveRoom(c)
  \/ \E c \in peers : Signal(c)
  \/ \E c \in peers : UnknownMessage(c)
  \/ \E c \in peers : WsClosing(c)
  \/ \E c \in peers : WsClose(c)

NextSignaling == NextSockets(WsClient)

\* the connections conns: admission, close and DELETE
NextConn(conns) ==
  \/ \E c \in conns : Connect(c)
  \/ \E c \in conns : CreateConnectionSettles(c)
  \/ \E c \in conns : Disconnect(c)
  \/ \E c \in conns : Close(c)
  \/ \E c \in conns : CloseRemoveSettles(c)
  \/ \E d \in Del : \E c \in conns \cup {UnknownId} : ForceDisconnect(d, c)
  \/ \E d \in Del : ForceRemoveSettles(d)

\* the broadcasts bcasts
NextBcast(bcasts) ==
  \/ \E b \in bcasts : Broadcast(b)
  \/ \E b \in bcasts : CreateMessageSettles(b)
  \/ \E b \in bcasts : GetConnectionSettles(b)
  \/ \E b \in bcasts : UpdateConnectionSettles(b)
  \/ \E b \in bcasts : RemoveConnectionSettles(b)
  \/ \E b \in bcasts : CreateEventLogSettles(b)
  \/ \E b \in bcasts : CatchLogSettles(b)

\* the push channel with the connections conns and the broadcasts bcasts
NextPush(conns, bcasts) == NextConn(conns) \/ NextBcast(bcasts)

FirstPeer == {c \in WsClient : \A d \in WsClient : c <= d}

FirstConn == {c \in Conn : \A d \in Conn : c <= d}

FirstBcast == {b \in Bcast : \A a \in Bcast : b <= a}

\* the signaling channel: WebSocket clients and their rooms
SpecSignaling == Init /\ [][NextSignaling]_vars

\* one broadcast over every push connection
SpecFanOut == Init /\ [][NextPush(Conn, FirstBcast)]_vars

\* every broadcast over one push connection
SpecOrder == Init /\ [][NextPush(FirstConn, Bcast)]_vars

\* one connection, one broadcast and the ping timer of the connection, which
\* fires again and again
NextPing == NextPush(FirstConn, FirstBcast) \/ \E c \in FirstConn : Tick(c)

SpecPing == Init /\ [][NextPing]_vars /\ \A c \in FirstConn : WF_vars(Tick(c))

\* one signaling client next to one push connection and the DELETE requests
NextRemoval == NextSockets(FirstPeer) \/ NextConn(FirstConn)

SpecRemoval == Init /\ [][NextRemoval]_vars

\* ------------------------------------------------------------------ claims
IsSignal(ev) == ev.kind = "message" /\ ev.message.type = "webrtc-signal"

IsRoomSignal(ev) == IsSignal(ev) /\ ev.message.targetClientId = NoTarget

IsLeave(ev) == ev.kind = "message" /\ ev.message.type = "leave-room"

\* the webrtc-signal frames the last handler sent to socket t
RelayedTo(t) == SelectSeq(sent[t], LAMBDA f : f.type = "webrtc-signal")

InNoRoom(c) == \A r \in DOMAIN videoRooms : c \notin videoRooms[r].participants

\* the step is the handling of message m of client c: a step of the signaling
\* channel, which leaves the push channel alone, for that event
Handles(c, m) ==
  /\ lastEvent'.kind = "message"
  /\ lastEvent'.clientId = c
  /\ lastEvent'.message = m
  /\ UNCHANGED sseVars

\* C5: after any sequence of join-room, leave-room and close events a room is
\* in videoRooms if and only if its participant set is non-empty: no entry of
\* videoRooms has an empty participant set (a room that is not in videoRooms
\* has no participant set at all).
RoomPresentIffNonEmpty ==
  \A r \in Room : (r \in DOMAIN videoRooms) <=>
     (\E c \in WsClient : r \in DOMAIN videoRooms /\ c \in videoRooms[r].participants)

\* a leave-room has just emptied and deleted a room while another room stays
RoomEmptiedWitness ==
  /\ IsLeave(lastEvent)
  /\ DOMAIN videoRooms # {}
  /\ \E r \in Room \ DOMAIN videoRooms :
       sent[lastEvent.clientId] = <<[type |-> "room-left", roomId |-> r]>>

NoSignalAcrossRooms ==
  (IsSignal(lastEvent) /\ lastEvent.clientId \in DOMAIN webrtcPeers) =>
    \A t \in WsClient : RelayedTo(t) # << >> =>
      /\ t \in DOMAIN webrtcPeers
      /\ webrtcPeers[t].currentRoomId = webrtcPeers[lastEvent.clientId].currentRoomId

\* C8: every relayed frame carries the sender's id, the signalType field of
\* the sender's message and the sender's signal payload.
RelayedFrameVerbatim ==
  IsSignal(lastEvent) =>
    \A t \in WsClient : \A i \in 1..Len(RelayedTo(t)) :
      /\ RelayedTo(t)[i].fromClientId = lastEvent.clientId
      /\ RelayedTo(t)[i].signalType = lastEvent.message.signalType
      /\ RelayedTo(t)[i].signal = lastEvent.message.signal

\* C9: for a room-scoped signal of a sender in room r, every other participant
\* of r whose socket is open gets exactly one copy and the sender gets none.
RoomSignalOncePerParticipant ==
  (IsRoomSignal(lastEvent) /\ lastEvent.clientId \in DOMAIN webrtcPeers) =>
    LET s == lastEvent.clientId
        r == webrtcPeers[s].currentRoomId
    IN /\ RelayedTo(s) = << >>
       /\ r \in DOMAIN videoRooms
       /\ \A p \in (videoRooms[r].participants \cap WsClient) \ {s} :
            wsReadyState[p] = "OPEN" => Len(RelayedTo(p)) = 1

\* C10: a room-scoped signal of a client that is in no room (it is in no
\* participant set, or it has no current room) gets that client one error
\* frame 'Not in a video room', gets nobody else anything, on either channel,
\* and leaves videoRooms and webrtcPeers as they were.
SignalOutsideRoomRejected ==
  [][\A c \in WsClient : \A m \in SignalMessages :
       (/\ m.targetClientId = NoTarget
        /\ InNoRoom(c) \/ c \notin DOMAIN webrtcPeers
        /\ Handles(c, m))
       => /\ sent' = SendTo(c, [type |-> "error", message |-> "Not in a video room"])
          /\ frames' = frames
          /\ videoRooms' = videoRooms
          /\ webrtcPeers' = webrtcPeers]_vars

\* a client in no room has sent a room-scoped signal while another client with
\* an open socket sits in a room
SignalOutsideRoomWitness ==
  /\ IsRoomSignal(lastEvent)
  /\ InNoRoom(lastEvent.clientId)
  /\ sent[lastEvent.clientId] # << >>
  /\ \E d \in WsClient \ {lastEvent.clientId} : PeerOpen(webrtcPeers, d)

\* the broadcast handler has returned: res.json, status 400, or a rejection
Finished(b) == bpc[b] \in {"done", "failed", "rejected"}

\* response.write of b to c returned without throwing
Written(b, c) == writes[b][c] \in {"written", "dropped"}

\* the ids of the broadcast frames that reached c, in the order they reached it
BroadcastIds(c) ==
  LET fs == SelectSeq(frames[c], LAMBDA f : f.type = "broadcast")
  IN [i \in 1..Len(fs) |-> fs[i].id]

\* C1: when a broadcast has finished, every connection that was in sseClients
\* when the request arrived has had the frame written to it or is no longer
\* in sseClients.
BroadcastCoversRegistry ==
  \A b \in Bcast : Finished(b) =>
    \A c \in atInvoke[b] : Written(b, c) \/ ~InRegistry(c)

\* C2: a broadcast never writes to a connection that is not in sseClients.
NoWriteAfterRemoval == staleWrites = {}

\* C3: the broadcast frames reach every connection in the order in which the
\* broadcast requests arrived.
BroadcastOrderKept ==
  \A c \in Conn : \A i, j \in 1..Len(BroadcastIds(c)) :
    i < j => BroadcastIds(c)[i] < BroadcastIds(c)[j]

\* C4: a broadcast in which a write threw has, once it has finished, removed
\* that connection from sseClients, gone through its whole snapshot and
\* returned as recipientCount the number of writes that did not throw.
WriteFailureIsolated ==
  \A b \in Bcast :
    (Finished(b) /\ \E c \in Conn : writes[b][c] = "threw") =>
      /\ \A c \in Conn : writes[b][c] = "threw" => ~InRegistry(c)
      /\ \A i \in 1..Len(clientEntries[b]) : writes[b][clientEntries[b][i]] # "none"
      /\ bpc[b] = "done"
      /\ successCount[b] = Cardinality({c \in Conn : Written(b, c)})

\* ------------------------------------------------- claims: rooms and peers
\* the participant-left frames the last handler sent to socket p about client c
LeftFrames(p, c) ==
  SelectSeq(sent[p], LAMBDA f : f.type = "participant-left" /\ f.clientId = c)

\* C11: when the socket of a participant of room r has closed, every remaining
\* participant of r with an open socket has received a participant-left frame
\* with the closed client's id and the participant count after the removal.
CloseNotifiesParticipants ==
  lastEvent.kind = "close" =>
    \A r \in lastEvent.rooms \cap DOMAIN videoRooms :
      \A p \in videoRooms[r].participants \cap WsClient :
        PeerOpen(webrtcPeers, p) =>
          \E i \in 1..Len(LeftFrames(p, lastEvent.clientId)) :
            LeftFrames(p, lastEvent.clientId)[i].participantCount =
              Cardinality(videoRooms[r].participants)

JoinNotifies ==
  [][\A c \in WsClient : \A m \in JoinMessages :
       (m.roomId # NoRoomId /\ Handles(c, m)) =>
         LET r == m.roomId IN
         /\ r \in DOMAIN videoRooms'
         /\ c \in videoRooms'[r].participants
         /\ sent'[c] = <<[type |-> "room-joined", roomId |-> r,
                          participantCount |-> Cardinality(videoRooms'[r].participants),
                          isHost |-> (r \notin DOMAIN videoRooms
                                      \/ videoRooms[r].hostId = c)]>>
         /\ \A p \in (videoRooms'[r].participants \cap WsClient) \ {c} :
              wsReadyState[p] = "OPEN" =>
                sent'[p] = <<[type |-> "participant-joined", clientId |-> c, roomId |-> r,
                              participantCount |->
                                Cardinality(videoRooms'[r].participants)]>>]_vars

\* C14: on leave-room by c whose current room is r, c leaves r's participant
\* set, every remaining participant of r with an open socket gets one
\* participant-left frame with the count after the removal, r is deleted
\* exactly when that count is 0, c's peer entry is removed and c gets
\* room-left for r.
LeaveNotifies ==
  [][\A c \in WsClient : \A m \in LeaveMessages :
       (c \in DOMAIN webrtcPeers /\ Handles(c, m)) =>
         LET r == webrtcPeers[c].currentRoomId
             left == videoRooms[r].participants \ {c}
         IN /\ r \in DOMAIN videoRooms' => c \notin videoRooms'[r].participants
            /\ (r \in DOMAIN videoRooms') <=> (left # {})
            /\ c \notin DOMAIN webrtcPeers'
            /\ sent'[c] = <<[type |-> "room-left", roomId |-> r]>>
            /\ \A p \in left \cap WsClient :
                 wsReadyState[p] = "OPEN" =>
                   sent'[p] = <<[type |-> "participant-left", clientId |-> c, roomId |-> r,
                                 participantCount |-> Cardinality(left)]>>]_vars

\* C15: a client id is in the participant set of at most one room.
AtMostOneRoom ==
  \A c \in WsClient : Cardinality(RoomsOf(videoRooms, c)) <= 1

\* ------------------------------------------- claims: removal and registry
\* the step is the synchronous part of a DELETE for an id that is not in sseClients
DeletesAbsent ==
  \E d \in Del :
    /\ deletePc[d].pc = "idle"
    /\ deletePc'[d].pc # "idle"
    /\ ~InRegistry(deletePc'[d].clientId)

\* the step is the 'close' handler of a connection that is not in sseClients
ClosesAbsent ==
  \E c \in Conn : closePc[c] = "idle" /\ closePc'[c] # "idle" /\ ~InRegistry(c)

\* the step is leave-room of a client that is in no room
LeavesNoRoom ==
  \E c \in WsClient : \E m \in LeaveMessages :
    Handles(c, m) /\ (InNoRoom(c) \/ c \notin DOMAIN webrtcPeers)

RegistryMatchesTransport ==
  \A c \in Conn :
    /\ InRegistry(c) => (transport[c] = "open" \/ closePc[c] = "idle")
    /\ transport[c] = "open" => InRegistry(c)

\* C18: a broadcast in which a persistence call failed and ended the handler
\* has still written its frame to every connection that was registered when
\* it was invoked and still is.
PersistenceFailureHarmless ==
  \A b \in Bcast : bpc[b] \in {"catchLog", "failed", "rejected"} =>
    \A c \in atInvoke[b] : InRegistry(c) => writes[b][c] # "none"

\* ------------------------------------------------------ claims: ping timer
\* C19: after a ping write that failed the connection is no longer in
\* sseClients, and no exception has left the timer callback.
PingFailurePrunes ==
  /\ ~uncaught
  /\ \A c \in Conn : pingWrite[c] \in {"dropped", "threw"} => ~InRegistry(c)

\* C20: a tick writes a ping only to a connection that is in sseClients and
\* clears the timer only of a connection that is not; a timer whose connection
\* has been removed eventually stops.
PingOnlyWhileRegistered ==
  /\ [][\A c \in Conn :
          /\ pingCount'[c] # pingCount[c] => InRegistry(c) /\ pingPc'[c] = "armed"
          /\ (pingPc[c] = "armed" /\ pingPc'[c] # "armed") =>
               ~InRegistry(c) /\ frames'[c] = frames[c]]_vars
  /\ \A c \in Conn :
       (pingPc[c] = "armed" /\ ~InRegistry(c)) ~> (pingPc[c] = "cleared" \/ uncaught)

\* a connection that got a ping has been removed and its timer is cleared
PingStoppedWitness ==
  \E c \in Conn :
    /\ pingPc[c] = "cleared"
    /\ pingWrite[c] = "written"
    /\ ~InRegistry(c)

\* the /api/video/rooms endpoints next to the signaling channel of one client
NextRest ==
  \/ \E q \in Rest : CreateRoom(q)
  \/ \E q \in Rest : RestJoin(q)
  \/ \E q \in Rest : RestLeave(q)
  \/ \E q \in Rest : CreateVideoRoomSettles(q)
  \/ \E q \in Rest : CreateVideoParticipantSettles(q)
  \/ \E q \in Rest : LeaveVideoRoomSettles(q)
  \/ \E q \in Rest : RestEventLogSettles(q)

SpecRest == Init /\ [][NextRest \/ NextSockets(FirstPeer)]_vars

\* the browser client of the push channel
NextClient ==
  \/ ClientConnect
  \/ ClientDisconnect
  \/ OnOpen
  \/ OnError
  \/ TimerFires

SpecReconnect == Init /\ [][NextClient]_vars

\* ------------------------------------------- claims: signaling edge cases
\* the error frames the last handler sent to socket c
ErrorsTo(c) == SelectSeq(sent[c], LAMBDA f : f.type = "error")

\* C21: a frame that cannot be parsed or whose type is not join-room,
\* leave-room or webrtc-signal leaves videoRooms and webrtcPeers as they were,
\* sends nothing to anybody and leaves every socket, the sender's included, in
\* the state it was in, so that the sender's next frames are handled.
BadFrameIgnored ==
  [][\A c \in WsClient :
       Handles(c, [NoMessage EXCEPT !.type = "unknown"]) =>
         /\ videoRooms' = videoRooms
         /\ webrtcPeers' = webrtcPeers
         /\ sent' = Nothing
         /\ wsReadyState' = wsReadyState
         /\ wsReadyState'[c] = "OPEN"]_vars

\* a client that is in a room next to another one has sent a bad frame: its
\* socket is open and it is still in the room
BadFrameWitness ==
  /\ lastEvent.kind = "message"
  /\ lastEvent.message.type = "unknown"
  /\ wsReadyState[lastEvent.clientId] = "OPEN"
  /\ lastEvent.clientId \in DOMAIN webrtcPeers
  /\ \E d \in WsClient \ {lastEvent.clientId} :
       d \in videoRooms[webrtcPeers[lastEvent.clientId].currentRoomId].participants

\* C22: join-room by a client for the room it is in (its current room, whose
\* participant set has it) leaves videoRooms and webrtcPeers as they were and
\* sends no error frame.
RepeatedJoinIdempotent ==
  [][\A c \in WsClient : \A m \in JoinMessages :
       (/\ Handles(c, m)
        /\ c \in DOMAIN webrtcPeers
        /\ webrtcPeers[c].currentRoomId = m.roomId
        /\ m.roomId \in DOMAIN videoRooms
        /\ c \in videoRooms[m.roomId].participants)
       => /\ videoRooms' = videoRooms
          /\ webrtcPeers' = webrtcPeers
          /\ \A p \in WsClient :
               SelectSeq(sent'[p], LAMBDA f : f.type = "error") = << >>]_vars

\* a client has joined again the room it was in, a room another client hosts
RepeatedJoinWitness ==
  /\ lastEvent.kind = "message"
  /\ lastEvent.message.type = "join-room"
  /\ lastEvent.message.roomId \in lastEvent.rooms
  /\ lastEvent.clientId \in DOMAIN webrtcPeers
  /\ webrtcPeers[lastEvent.clientId].currentRoomId = lastEvent.message.roomId
  /\ videoRooms[lastEvent.message.roomId].hostId # lastEvent.clientId
  /\ Cardinality(videoRooms[lastEvent.message.roomId].participants) = 2

\* C23: leave-room naming a room the sender is not a participant of changes
\* nothing: videoRooms and webrtcPeers stay as they were and no
\* participant-left frame is sent.
LeaveOfOtherRoomIgnored ==
  [][\A c \in WsClient : \A m \in LeaveMessages :
       (/\ Handles(c, m)
        /\ m.roomId # NoRoomId
        /\ m.roomId \notin RoomsOf(videoRooms, c))
       => /\ videoRooms' = videoRooms
          /\ webrtcPeers' = webrtcPeers
          /\ \A p \in WsClient :
               SelectSeq(sent'[p], LAMBDA f : f.type = "participant-left") = << >>]_vars

\* C24: a directed webrtc-signal gets its sender no error frame; it is
\* forwarded to a target whose socket is open and otherwise dropped, with no
\* frame to anybody.
DirectedSignalNeverErrors ==
  (IsSignal(lastEvent) /\ lastEvent.message.targetClientId # NoTarget) =>
    LET t == lastEvent.message.targetClientId IN
    /\ ErrorsTo(lastEvent.clientId) = << >>
    /\ IF wsReadyState[t] = "OPEN"
       THEN Len(RelayedTo(t)) = 1
       ELSE sent = Nothing

\* C28: every peer entry names an existing room whose participant set has the
\* peer, and every signaling client in a participant set has a peer entry
\* whose currentRoomId is that room.
PeersAgreeWithRooms ==
  /\ \A c \in DOMAIN webrtcPeers :
       /\ webrtcPeers[c].currentRoomId \in DOMAIN videoRooms
       /\ c \in videoRooms[webrtcPeers[c].currentRoomId].participants
  /\ \A r \in DOMAIN videoRooms : \A c \in videoRooms[r].participants \cap WsClient :
       c \in DOMAIN webrtcPeers /\ webrtcPeers[c].currentRoomId = r

\* ------------------------------------------------ claims: stored records
\* no broadcast is between its first and its last step
NoBroadcastRunning == \A b \in Bcast : bpc[b] = "idle" \/ Finished(b)

\* C25: once every broadcast has completed, the stored messageCount of a
\* connection that is still registered and whose admission has stored its row
\* is the number of broadcasts whose write to it returned.
MessageCountMatchesWrites ==
  NoBroadcastRunning =>
    \A c \in Conn :
      (InRegistry(c) /\ createPc[c] = "done" /\ c \in DOMAIN connections) =>
        connections[c].messageCount = Cardinality({b \in Bcast : Written(b, c)})

\* C29: a broadcast takes a connection out of the registry only when its write
\* to that connection threw.
PrunedOnlyAfterFailedWrite ==
  [][\A b \in Bcast :
       (bpc'[b] = "removeConnection" /\ bpc[b] # "removeConnection") =>
         writes'[b][clientEntries'[b][idx'[b]]] = "threw"]_vars

\* C30: when a connection has closed and the storage calls made for it have
\* settled, the connections table has no row for its id.
ClosedConnectionHasNoRow ==
  \A c \in Conn :
    (/\ closePc[c] = "done"
     /\ createPc[c] = "done"
     /\ \A d \in Del : deletePc[d].pc # "removeConnection")
    => c \notin DOMAIN connections

\* C27: with the /api/video/rooms endpoints counted, every room of the
\* registry has a participant.
NoEmptyRoomWithRest ==
  \A r \in DOMAIN videoRooms : videoRooms[r].participants # {}

\* --------------------------------------------------- claims: the client
\* the client ran the callback or call e
ClientRan(e) == clientEvent' = e /\ clientVars' # clientVars /\ UNCHANGED serverVars

\* C26: reconnectAttempts never exceeds maxReconnectAttempts and no more than
\* maxReconnectAttempts reconnects are scheduled without an onopen in between;
\* onopen sets reconnectAttempts to 0; an error that finds reconnectAttempts at
\* maxReconnectAttempts schedules no reconnect.
ReconnectAttemptsBounded ==
  /\ [](reconnectAttempts <= maxReconnectAttempts
        /\ reconnectsSinceOpen <= maxReconnectAttempts)
  /\ [][/\ ClientRan("open") => reconnectAttempts' = 0
        /\ (clientEvent' = "error" /\ reconnectAttempts = maxReconnectAttempts)
             => (timers' = timers /\ reconnectAttempts' = reconnectAttempts)]_vars

\* the error after the last scheduled reconnect has run: reconnectAttempts is
\* at maxReconnectAttempts and no timer is pending
ReconnectGivenUpWitness ==
  /\ clientEvent = "error"
  /\ reconnectAttempts = maxReconnectAttempts
  /\ reconnectsSinceOpen = maxReconnectAttempts
  /\ timers = << >>

====
